---------------------------- MODULE Spec2Model ----------------------------
(* Model of src/main.go: the CSV fetchers (makePayload, httpFetcher,       *)
(* fileFetcher, urlFetcher), the mutex-guarded result map (results.add),   *)
(* the worker goroutines and the cycle loop of fetch.                      *)
(*                                                                         *)
(* A Go string is a sequence of one-character strings, so that TrimSpace   *)
(* and Atoi are computed and not assumed.  A nil error is "".              *)
EXTENDS Integers, Sequences, FiniteSets, TLC

(***************************************************************************)
(* Bounds of the model.                                                    *)
(***************************************************************************)
MaxUrls == 2      \* longest locator list handed to fetch
MaxPool == 2      \* largest poolSize
MaxCycles == 3    \* pool generations explored before the model stops

(***************************************************************************)
(* Strings and the library calls the program makes on them.                *)
(***************************************************************************)
Digits == <<"0", "1", "2", "3", "4", "5", "6", "7", "8", "9">>

IsDigit(c) == \E d \in 1..10 : Digits[d] = c

DigitVal(c) == (CHOOSE d \in 1..10 : Digits[d] = c) - 1

IsSpace(c) == c \in {" ", "\t", "\n", "\r"}

RECURSIVE TrimLeft(_)
TrimLeft(s) ==
    IF s # <<>> /\ IsSpace(Head(s)) THEN TrimLeft(Tail(s)) ELSE s

RECURSIVE TrimRight(_)
TrimRight(s) ==
    IF s # <<>> /\ IsSpace(s[Len(s)])
    THEN TrimRight(SubSeq(s, 1, Len(s) - 1))
    ELSE s

\* strings.TrimSpace
TrimSpace(s) == TrimRight(TrimLeft(s))

RECURSIVE DigitsValue(_)
DigitsValue(s) ==
    IF s = <<>> THEN 0
    ELSE 10 * DigitsValue(SubSeq(s, 1, Len(s) - 1)) + DigitVal(s[Len(s)])

AtoiBody(s) == IF s # <<>> /\ Head(s) \in {"+", "-"} THEN Tail(s) ELSE s

\* strconv.Atoi: the error result (an optional sign, then one digit or more)
AtoiErr(s) ==
    \/ AtoiBody(s) = <<>>
    \/ \E i \in 1..Len(AtoiBody(s)) : ~IsDigit(AtoiBody(s)[i])

\* strconv.Atoi: the value, read only when AtoiErr is FALSE
AtoiVal(s) ==
    IF s # <<>> /\ Head(s) = "-"
    THEN 0 - DigitsValue(AtoiBody(s))
    ELSE DigitsValue(AtoiBody(s))

\* strings.Join
RECURSIVE Join(_, _)
Join(fields, sep) ==
    IF fields = <<>> THEN <<>>
    ELSE IF Len(fields) = 1 THEN fields[1]
    ELSE fields[1] \o sep \o Join(Tail(fields), sep)

\* the header literal "fname, lname, age" of makePayload
Header ==
    <<"f", "n", "a", "m", "e", ",", " ", "l", "n", "a", "m", "e", ",", " ",
      "a", "g", "e">>

(***************************************************************************)
(* url.URL, user and payload.                                              *)
(***************************************************************************)
URL(scheme, host, path) == [Scheme |-> scheme, Host |-> host, Path |-> path]

\* the zero value of url.URL, which a payload built without url: carries
ZeroURL == URL("", "", "")

\* url.URL.String() for the locators of the model (relative paths, a host
\* whenever there is a scheme)
String(u) ==
    (IF u.Scheme # "" THEN u.Scheme \o ":" ELSE "")
    \o (IF u.Scheme # "" \/ u.Host # "" THEN "//" \o u.Host ELSE "")
    \o (IF u.Path # "" /\ u.Host # "" THEN "/" ELSE "")
    \o u.Path

user(first, last, age) == [first |-> first, last |-> last, age |-> age]

\* a payload literal; fields the literal leaves out are Go zero values
payload(u, users, numBad, err, canRetry) ==
    [url |-> u, users |-> users, numBad |-> numBad, err |-> err,
     canRetry |-> canRetry, elapsed |-> 0]

(***************************************************************************)
(* parseCSV and makePayload.  The bytes of a source are abstracted to what *)
(* encoding/csv makes of them: malformed, or a sequence of rows of fields. *)
(***************************************************************************)
Bytes(malformed, rows) == [malformed |-> malformed, rows |-> rows]

\* parseCSV: the error result.  ReadAll also rejects a record whose number
\* of fields differs from the first record's.
parseCSVErr(b) ==
    \/ b.malformed
    \/ \E i \in 1..Len(b.rows) : Len(b.rows[i]) # Len(b.rows[1])

\* parseCSV: the rows, read only when parseCSVErr is FALSE
parseCSV(b) == b.rows

\* the inner loop of makePayload: every cell of the row trimmed
TrimRow(r) == [i \in 1..Len(r) |-> TrimSpace(r[i])]

\* checkRow without the test age == 0
checkRowKeepsZero(acc, row) ==
    LET r == TrimRow(row)
        u == user(r[1], r[2], AtoiVal(r[3]))
    IN  IF AtoiErr(r[3])
        THEN [users |-> acc.users, nbad |-> acc.nbad + 1]
        ELSE IF Len(u.first) = 0 \/ Len(u.last) = 0
        THEN [users |-> acc.users, nbad |-> acc.nbad + 1]
        ELSE [users |-> Append(acc.users, u), nbad |-> acc.nbad]

\* one iteration of the row loop of makePayload on the state
\* acc = [users, nbad]
checkRow(acc, row) ==
    LET r == TrimRow(row)
        u == user(r[1], r[2], AtoiVal(r[3]))
    IN  IF AtoiErr(r[3])
        THEN [users |-> acc.users, nbad |-> acc.nbad + 1]
        ELSE IF Len(u.first) = 0 \/ Len(u.last) = 0 \/ u.age = 0
        THEN [users |-> acc.users, nbad |-> acc.nbad + 1]
        ELSE [users |-> Append(acc.users, u), nbad |-> acc.nbad]

\* the row loop of makePayload over p[1:]
RECURSIVE checkRows(_, _)
checkRows(acc, rows) ==
    IF rows = <<>> THEN acc
    ELSE checkRows(checkRow(acc, Head(rows)), Tail(rows))

headerOK(p) == Join(p[1], <<",">>) = Header

\* makePayload panics (index out of range) on p[0] of an empty parse and on
\* r[2] of a row with fewer than three fields
makePayloadPanics(b) ==
    IF parseCSVErr(b) THEN FALSE
    ELSE IF Len(parseCSV(b)) = 0 THEN TRUE
    ELSE IF ~headerOK(parseCSV(b)) THEN FALSE
    ELSE \E i \in 2..Len(parseCSV(b)) : Len(parseCSV(b)[i]) < 3

\* makePayload, where it does not panic
makePayload(u, b) ==
    IF parseCSVErr(b) THEN payload(u, <<>>, 0, "csv", FALSE)
    ELSE IF ~headerOK(parseCSV(b))
    THEN payload(ZeroURL, <<>>, 0, "header", FALSE)
    ELSE LET acc == checkRows([users |-> <<>>, nbad |-> 0],
                              Tail(parseCSV(b)))
         IN  payload(u, acc.users, acc.nbad, "", FALSE)

(***************************************************************************)
(* The fetchers.  What the file system or the network answers to one call  *)
(* is a response record, chosen by the environment at each call.           *)
(***************************************************************************)
StatusOK == 200

ServerError == 500

Response(ioerr, status, readerr, body) ==
    [ioerr |-> ioerr, status |-> status, readerr |-> readerr, body |-> body]

\* httpFetcher: it panics only where makePayload does
httpFetcherPanics(u, resp) ==
    /\ ~resp.ioerr
    /\ resp.status = StatusOK
    /\ ~resp.readerr
    /\ makePayloadPanics(resp.body)

httpFetcher(u, resp) ==
    IF resp.ioerr THEN payload(u, <<>>, 0, "get", FALSE)
    ELSE IF resp.status = StatusOK
    THEN IF resp.readerr THEN payload(u, <<>>, 0, "read", FALSE)
         ELSE makePayload(u, resp.body)
    ELSE IF resp.status >= ServerError
    THEN payload(u, <<>>, 0, "", TRUE)
    ELSE payload(u, <<>>, 0, "status", FALSE)

fileFetcherPanics(u, resp) == ~resp.ioerr /\ makePayloadPanics(resp.body)

fileFetcher(u, resp) ==
    IF resp.ioerr THEN payload(u, <<>>, 0, "readfile", FALSE)
    ELSE makePayload(u, resp.body)

urlFetcherPanics(u, resp) ==
    CASE u.Scheme = "file" -> fileFetcherPanics(u, resp)
      [] u.Scheme = "http" -> httpFetcherPanics(u, resp)
      [] OTHER -> FALSE

urlFetcher(u, resp) ==
    CASE u.Scheme = "file" -> fileFetcher(u, resp)
      [] u.Scheme = "http" -> httpFetcher(u, resp)
      [] OTHER -> payload(u, <<>>, 0, "scheme", FALSE)

(***************************************************************************)
(* The inputs of the model: locators, source contents, responses.          *)
(***************************************************************************)
FileA == URL("file", "data", "a.csv")

HttpB == URL("http", "h", "b.csv")

FtpC == URL("ftp", "h", "c.csv")

Locators == {FileA, HttpB, FtpC}

\* a valid header, one valid row with padded cells, one row with a bad age
BodyGood ==
    Bytes(FALSE,
          << <<<<"f", "n", "a", "m", "e">>, <<" ", "l", "n", "a", "m", "e">>,
               <<" ", "a", "g", "e">>>>,
             <<<<" ", "A", "l">>, <<"B", "o", " ">>, <<" ", "4", "2">>>>,
             <<<<"C", "y">>, <<"D", "i">>, <<"x">>>> >>)

\* the header "a,b,c"
BodyBadHeader == Bytes(FALSE, << <<<<"a">>, <<"b">>, <<"c">>>> >>)

\* no record at all (an empty file)
BodyEmpty == Bytes(FALSE, <<>>)

\* bytes encoding/csv rejects
BodyMalformed == Bytes(TRUE, <<>>)

Bodies == {BodyGood, BodyBadHeader, BodyEmpty, BodyMalformed}

FileResponses ==
    {Response(TRUE, 0, FALSE, BodyEmpty)}
    \cup {Response(FALSE, 0, FALSE, b) : b \in Bodies}

HttpResponses ==
    {Response(TRUE, 0, FALSE, BodyEmpty),
     Response(FALSE, StatusOK, TRUE, BodyEmpty),
     Response(FALSE, 404, FALSE, BodyEmpty),
     Response(FALSE, ServerError, FALSE, BodyEmpty)}
    \cup {Response(FALSE, StatusOK, FALSE, b) : b \in {BodyGood, BodyBadHeader}}

Responses(u) ==
    CASE u.Scheme = "file" -> FileResponses
      [] u.Scheme = "http" -> HttpResponses
      [] OTHER -> {Response(FALSE, 0, FALSE, BodyEmpty)}

(***************************************************************************)
(* A scripted fetcher, as a test passes one to fetch: for each locator it  *)
(* fails fatally, fails retryably for ever, or succeeds after a number of  *)
(* retryable failures.  Its records carry the number of the attempt.       *)
(***************************************************************************)
Plan(kind, fails) == [kind |-> kind, fails |-> fails]

Unplanned == Plan("unset", 0)

Plans == {Plan("fatal", 0), Plan("retry", 0), Plan("ok", 0), Plan("ok", 2)}

stubFetcher(u, plan, attempt) ==
    CASE plan.kind = "fatal" -> payload(u, <<>>, 0, "fatal", FALSE)
      [] plan.kind = "retry" -> payload(u, <<>>, 0, "transient", TRUE)
      [] OTHER ->
           IF attempt <= plan.fails
           THEN payload(u, <<>>, 0, "transient", TRUE)
           ELSE payload(u, <<user(<<"n">>, <<"n">>, attempt)>>, 0, "", FALSE)

(***************************************************************************)
(* fetch: the state of one call.                                           *)
(***************************************************************************)
VARIABLES
    urls,       \* argument urls
    poolSize,   \* argument poolSize
    f,          \* argument f: "urlFetcher" or "stubFetcher"
    plan,       \* the script of the stub fetcher, fixed at a locator's first call
    pc,         \* where the goroutine of fetch is
    i,          \* the counter of the spawn loop
    next,       \* the index in remaining of the locator fed next
    cycle,      \* the number of the pool generation, from 1
    remaining,  \* local remaining
    final,      \* local final
    chClosed,   \* whether channel ch is closed
    wg,         \* the counter of the WaitGroup
    payloads,   \* r.payloads, a map from string to payload
    mtx,        \* r.mtx: Unlocked, or the worker that holds it
    wpc,        \* where each worker goroutine is
    wurl,       \* each worker's loop variable url
    wp,         \* each worker's local p
    wattempt,   \* history: the number of the call of f a worker is in
    attempts,   \* history: calls of f so far, by locator
    calls,      \* history: calls of f in this cycle, by index in remaining
    dropped,    \* history: the url of every payload a partition found fatal
    written,    \* history: the last payload handed to results.add, by key
    stage,      \* where main is after fetch: the call of merge or summarize
    arg,        \* the argument of that call
    res,        \* what that call returned or logged
    panic       \* "" or the message of the panic that ended the process

fetchVars ==
    <<urls, poolSize, f, plan, pc, i, next, cycle, remaining, final, chClosed,
      wg, payloads, mtx, wpc, wurl, wp, wattempt, attempts, calls, dropped,
      written, panic>>

vars == <<fetchVars, stage, arg, res>>

Workers == 0..(MaxPool - 1)

Unlocked == 0 - 1

NoPayload == payload(ZeroURL, <<>>, 0, "", FALSE)

RECURSIVE SeqsUpTo(_, _)
SeqsUpTo(S, n) ==
    IF n = 0 THEN {<<>>}
    ELSE SeqsUpTo(S, n - 1)
         \cup {Append(q, x) : q \in SeqsUpTo(S, n - 1), x \in S}

\* the orders in which a range over a Go map can visit the keys in S
Orderings(S) ==
    {q \in [1..Cardinality(S) -> S] :
        \A a, b \in 1..Cardinality(S) : a # b => q[a] # q[b]}

Init ==
    /\ urls \in SeqsUpTo(Locators, MaxUrls)
    /\ poolSize \in 1..MaxPool
    /\ f \in {"urlFetcher", "stubFetcher"}
    /\ plan = [u \in Locators |-> Unplanned]
    /\ pc = "spawn"
    /\ i = 0
    /\ next = 1
    /\ cycle = 1
    /\ remaining = urls
    /\ final = <<>>
    /\ chClosed = FALSE
    /\ wg = 0
    /\ payloads = <<>>
    /\ mtx = Unlocked
    /\ wpc = [w \in Workers |-> "none"]
    /\ wurl = [w \in Workers |-> ZeroURL]
    /\ wp = [w \in Workers |-> NoPayload]
    /\ wattempt = [w \in Workers |-> 0]
    /\ attempts = [u \in Locators |-> 0]
    /\ calls = [n \in 1..Len(urls) |-> 0]
    /\ dropped = {}
    /\ written = <<>>
    /\ stage = "fetch"
    /\ arg = <<>>
    /\ res = <<>>
    /\ panic = ""

\* Spawn with the loop test i <= poolSize: one worker too many
SpawnOneMore ==
    /\ panic = "" /\ pc = "spawn"
    /\ i <= poolSize /\ i \in Workers
    /\ wg' = wg + 1
    /\ wpc' = [wpc EXCEPT ![i] = "recv"]
    /\ i' = i + 1
    /\ pc' = IF i + 1 <= poolSize /\ i + 1 \in Workers THEN "spawn" ELSE "feed"
    /\ UNCHANGED <<urls, poolSize, f, plan, next, cycle, remaining, final,
                   chClosed, payloads, mtx, wurl, wp, wattempt, attempts,
                   calls, panic, dropped,
                   written, stage, arg, res>>

\* one iteration of the spawn loop: wg.Add(1); go worker(i, ch, &wg, f, r)
Spawn ==
    /\ panic = "" /\ pc = "spawn"
    /\ i < poolSize
    /\ wg' = wg + 1
    /\ wpc' = [wpc EXCEPT ![i] = "recv"]
    /\ i' = i + 1
    /\ pc' = IF i + 1 < poolSize THEN "spawn" ELSE "feed"
    /\ UNCHANGED <<urls, poolSize, f, plan, next, cycle, remaining, final,
                   chClosed, payloads, mtx, wurl, wp, wattempt, attempts,
                   calls, panic,
                   dropped,
                   written, stage, arg, res>>

\* Send with a feed loop that steps over every second locator
SendSkips(w) ==
    /\ panic = "" /\ pc = "feed"
    /\ next <= Len(remaining)
    /\ ~chClosed
    /\ wpc[w] = "recv"
    /\ next' = next + 2
    /\ wpc' = [wpc EXCEPT ![w] = "call"]
    /\ wurl' = [wurl EXCEPT ![w] = remaining[next]]
    /\ attempts' = [attempts EXCEPT ![remaining[next]] = @ + 1]
    /\ wattempt' = [wattempt EXCEPT ![w] = attempts[remaining[next]] + 1]
    /\ calls' = [calls EXCEPT ![next] = @ + 1]
    /\ UNCHANGED <<urls, poolSize, f, plan, pc, i, cycle, remaining, final,
                   chClosed, wg, payloads, mtx, wp, panic, dropped,
                   written, stage, arg, res>>

\* ch <- url meets a worker's receive (ch is unbuffered); the worker logs,
\* reads the clock and enters f(url)
Send(w) ==
    /\ panic = "" /\ pc = "feed"
    /\ next <= Len(remaining)
    /\ ~chClosed
    /\ wpc[w] = "recv"
    /\ next' = next + 1
    /\ wpc' = [wpc EXCEPT ![w] = "call"]
    /\ wurl' = [wurl EXCEPT ![w] = remaining[next]]
    /\ attempts' = [attempts EXCEPT ![remaining[next]] = @ + 1]
    /\ wattempt' = [wattempt EXCEPT ![w] = attempts[remaining[next]] + 1]
    /\ calls' = [calls EXCEPT ![next] = @ + 1]
    /\ UNCHANGED <<urls, poolSize, f, plan, pc, i, cycle, remaining, final,
                   chClosed, wg, payloads, mtx, wp, panic,
                   dropped,
                   written, stage, arg, res>>

\* ch <- url on a closed channel panics
SendClosed ==
    /\ panic = "" /\ pc = "feed"
    /\ next <= Len(remaining)
    /\ chClosed
    /\ panic' = "send on closed channel"
    /\ UNCHANGED <<urls, poolSize, f, plan, pc, i, next, cycle, remaining,
                   final, chClosed, wg, payloads, mtx, wpc, wurl, wp,
                   wattempt, attempts, calls,
                   dropped,
                   written, stage, arg, res>>

\* close(ch), which panics on a closed channel
Close ==
    /\ panic = "" /\ pc = "feed"
    /\ next > Len(remaining)
    /\ IF chClosed
       THEN /\ panic' = "close of closed channel"
            /\ UNCHANGED <<pc, chClosed>>
       ELSE /\ chClosed' = TRUE
            /\ pc' = "wait"
            /\ UNCHANGED panic
    /\ UNCHANGED <<urls, poolSize, f, plan, i, next, cycle, remaining, final,
                   wg, payloads, mtx, wpc, wurl, wp, wattempt, attempts,
                   calls,
                   dropped,
                   written, stage, arg, res>>

\* Wait without the join: fetch goes on while workers still run
WaitNoJoin ==
    /\ panic = "" /\ pc = "wait"
    /\ pc' = "partition"
    /\ UNCHANGED <<urls, poolSize, f, plan, i, next, cycle, remaining, final,
                   chClosed, wg, payloads, mtx, wpc, wurl, wp, wattempt,
                   attempts, calls, panic, dropped,
                   written, stage, arg, res>>

\* wg.Wait() returns
Wait ==
    /\ panic = "" /\ pc = "wait"
    /\ wg = 0
    /\ pc' = "partition"
    /\ UNCHANGED <<urls, poolSize, f, plan, i, next, cycle, remaining, final,
                   chClosed, wg, payloads, mtx, wpc, wurl, wp, wattempt,
                   attempts, calls, panic,
                   dropped,
                   written, stage, arg, res>>

\* the keys of r.payloads the partition loop appends to neither list
Fatal(m) == {k \in DOMAIN m : m[k].err # "" /\ ~m[k].canRetry}

\* the keys of r.payloads the partition loop appends to final
Succeeded(m) == {k \in DOMAIN m : m[k].err = ""}

\* Retryable without the test of canRetry: every failure is requeued
RetryableAnyError(m) == {k \in DOMAIN m : m[k].err # ""}

\* Retryable with the test of err inverted: no failure is requeued
RetryableNoError(m) == {k \in DOMAIN m : m[k].err = "" /\ m[k].canRetry}

\* the keys of r.payloads the partition loop appends to remaining
Retryable(m) == {k \in DOMAIN m : m[k].err # "" /\ m[k].canRetry}

\* the partition loop over r.payloads, then the test of len(remaining):
\* break, log the skipped payloads and return, or cycle again
Partition ==
    /\ panic = "" /\ pc = "partition"
    /\ \E fo \in Orderings(Succeeded(payloads)),
          ro \in Orderings(Retryable(payloads)) :
         /\ final' = [n \in 1..Len(fo) |-> payloads[fo[n]]]
         /\ remaining' = [n \in 1..Len(ro) |-> payloads[ro[n]].url]
    /\ IF Len(remaining') = 0
       THEN /\ pc' = "done"
            /\ UNCHANGED <<i, next, cycle, calls>>
       ELSE /\ cycle < MaxCycles
            /\ pc' = "spawn"
            /\ i' = 0
            /\ next' = 1
            /\ cycle' = cycle + 1
            /\ calls' = [n \in 1..Len(remaining') |-> 0]
    /\ dropped' = dropped \cup {payloads[k].url : k \in Fatal(payloads)}
    /\ UNCHANGED <<urls, poolSize, f, plan, chClosed, wg, payloads, mtx, wpc,
                   wurl, wp, wattempt, attempts, panic,
                   written, stage, arg, res>>

(***************************************************************************)
(* worker and results.add.                                                 *)
(***************************************************************************)
\* one tick: the model's only elapsed time
Tick == 1

\* the map write of results.add: p.elapsed = e; r.payloads[p.url.String()] = p
add(m, p, e) ==
    [k \in DOMAIN m \cup {String(p.url)} |->
        IF k = String(p.url) THEN [p EXCEPT !.elapsed = e] ELSE m[k]]

\* what f(url) returns to worker w on response resp under plan pl
fetcherResult(w, resp, pl) ==
    IF f = "urlFetcher" THEN urlFetcher(wurl[w], resp)
    ELSE stubFetcher(wurl[w], pl, wattempt[w])

\* whether f(url) panics in worker w on response resp
fetcherPanics(w, resp) == f = "urlFetcher" /\ urlFetcherPanics(wurl[w], resp)

\* the plans the stub fetcher can follow for locator u
PlansFor(u) == IF plan[u] = Unplanned THEN Plans ELSE {plan[u]}

\* p := f(url) returns, and elapsed is read
FetchReturn(w) ==
    /\ panic = "" /\ wpc[w] = "call"
    /\ \E resp \in IF f = "urlFetcher" THEN Responses(wurl[w])
                   ELSE {Response(FALSE, 0, FALSE, BodyEmpty)},
          pl \in IF f = "urlFetcher" THEN {Unplanned} ELSE PlansFor(wurl[w]) :
         /\ ~fetcherPanics(w, resp)
         /\ wp' = [wp EXCEPT ![w] = fetcherResult(w, resp, pl)]
         /\ plan' = IF f = "urlFetcher" THEN plan
                    ELSE [plan EXCEPT ![wurl[w]] = pl]
    /\ wpc' = [wpc EXCEPT ![w] = "add"]
    /\ UNCHANGED <<urls, poolSize, f, pc, i, next, cycle, remaining, final,
                   chClosed, wg, payloads, mtx, wurl, wattempt, attempts,
                   calls, panic,
                   dropped,
                   written, stage, arg, res>>

\* f(url) panics inside makePayload: the process dies
FetchPanic(w) ==
    /\ panic = "" /\ wpc[w] = "call"
    /\ \E resp \in Responses(wurl[w]) : fetcherPanics(w, resp)
    /\ panic' = "index out of range"
    /\ UNCHANGED <<urls, poolSize, f, plan, pc, i, next, cycle, remaining,
                   final, chClosed, wg, payloads, mtx, wpc, wurl, wp,
                   wattempt, attempts, calls,
                   dropped,
                   written, stage, arg, res>>

\* Lock without mutual exclusion: results.add entered whoever holds r.mtx
LockNoMutex(w) ==
    /\ panic = "" /\ wpc[w] = "add"
    /\ mtx' = w
    /\ wpc' = [wpc EXCEPT ![w] = "locked"]
    /\ UNCHANGED <<urls, poolSize, f, plan, pc, i, next, cycle, remaining,
                   final, chClosed, wg, payloads, wurl, wp, wattempt,
                   attempts, calls, panic, dropped, written, stage, arg, res>>

\* r.mtx.Lock() in results.add
Lock(w) ==
    /\ panic = "" /\ wpc[w] = "add"
    /\ mtx = Unlocked
    /\ mtx' = w
    /\ wpc' = [wpc EXCEPT ![w] = "locked"]
    /\ UNCHANGED <<urls, poolSize, f, plan, pc, i, next, cycle, remaining,
                   final, chClosed, wg, payloads, wurl, wp, wattempt,
                   attempts, calls, panic,
                   dropped,
                   written, stage, arg, res>>

\* the body of results.add and its deferred Unlock; the worker is back at
\* its receive
Write(w) ==
    /\ panic = "" /\ wpc[w] = "locked"
    /\ payloads' = add(payloads, wp[w], Tick)
    /\ written' = [k \in DOMAIN written \cup {String(wp[w].url)} |->
                      IF k = String(wp[w].url) THEN wp[w] ELSE written[k]]
    /\ mtx' = Unlocked
    /\ wpc' = [wpc EXCEPT ![w] = "recv"]
    /\ wurl' = [wurl EXCEPT ![w] = ZeroURL]
    /\ wp' = [wp EXCEPT ![w] = NoPayload]
    /\ wattempt' = [wattempt EXCEPT ![w] = 0]
    /\ UNCHANGED <<urls, poolSize, f, plan, pc, i, next, cycle, remaining,
                   final, chClosed, wg, attempts, calls, panic,
                   dropped,
                   stage, arg, res>>

\* range todo ends on the closed channel; the deferred wg.Done() runs
WorkerExit(w) ==
    /\ panic = "" /\ wpc[w] = "recv"
    /\ chClosed
    /\ wpc' = [wpc EXCEPT ![w] = "exit"]
    /\ wg' = wg - 1
    /\ UNCHANGED <<urls, poolSize, f, plan, pc, i, next, cycle, remaining,
                   final, chClosed, payloads, mtx, wurl, wp, wattempt,
                   attempts, calls, panic,
                   dropped,
                   written, stage, arg, res>>

Next ==
    \/ Spawn
    \/ SendClosed
    \/ Close
    \/ Wait
    \/ Partition
    \/ \E w \in Workers : Send(w)
    \/ \E w \in Workers : FetchReturn(w)
    \/ \E w \in Workers : FetchPanic(w)
    \/ \E w \in Workers : Lock(w)
    \/ \E w \in Workers : Write(w)
    \/ \E w \in Workers : WorkerExit(w)

Spec == Init /\ [][Next]_vars

(***************************************************************************)
(* main after fetch: merge and summarize.  Each is checked on its own,     *)
(* called on arguments drawn from bounded sets, fetch having returned.     *)
(***************************************************************************)
MaxUsers == 4     \* longest user list handed to summarize

\* the state of a call fetch([], urlFetcher, 1) that has returned
FetchReturned ==
    /\ urls = <<>>
    /\ poolSize = 1
    /\ f = "urlFetcher"
    /\ plan = [u \in Locators |-> Unplanned]
    /\ pc = "done"
    /\ i = 1
    /\ next = 1
    /\ cycle = 1
    /\ remaining = <<>>
    /\ final = <<>>
    /\ chClosed = TRUE
    /\ wg = 0
    /\ payloads = <<>>
    /\ mtx = Unlocked
    /\ wpc = [w \in Workers |-> IF w = 0 THEN "exit" ELSE "none"]
    /\ wurl = [w \in Workers |-> ZeroURL]
    /\ wp = [w \in Workers |-> NoPayload]
    /\ wattempt = [w \in Workers |-> 0]
    /\ attempts = [u \in Locators |-> 0]
    /\ calls = <<>>
    /\ dropped = {}
    /\ written = <<>>
    /\ panic = ""

\* sort.Ints, as an insertion sort
RECURSIVE Insert(_, _)
Insert(x, q) ==
    IF q = <<>> THEN <<x>>
    ELSE IF x <= Head(q) THEN <<x>> \o q
    ELSE <<Head(q)>> \o Insert(x, Tail(q))

\* sortInts that leaves the slice as it is
sortIntsNone(a) == a

RECURSIVE sortInts(_)
sortInts(a) == IF a = <<>> THEN <<>> ELSE Insert(Head(a), sortInts(Tail(a)))

\* the loop of summarize that fills ages
agesOf(u) == [k \in 1..Len(u) |-> u[k].age]

\* the loop of summarize that adds up t
RECURSIVE total(_)
total(u) == IF u = <<>> THEN 0 ELSE Head(u).age + total(Tail(u))

\* int(x) of a float64 quotient t/n: the fraction is dropped, toward zero
truncQuot(t, n) == IF t >= 0 THEN t \div n ELSE 0 - ((0 - t) \div n)

\* mean with the quotient rounded down instead of truncated
meanFloor(u) == total(u) \div Len(u)

\* mean := int(float64(t) / float64(n))
mean(u) == truncQuot(total(u), Len(u))

\* mid with the half rounded down
midFloor(n) == n \div 2

\* mid := int(math.Ceil(float64(n) / float64(2)))
mid(n) == IF n % 2 = 0 THEN n \div 2 ELSE n \div 2 + 1

\* the last loop of summarize: the users logged under the median
RECURSIVE medianUsers(_, _)
medianUsers(u, median) ==
    IF u = <<>> THEN <<>>
    ELSE IF Head(u).age = median
    THEN <<Head(u)>> \o medianUsers(Tail(u), median)
    ELSE medianUsers(Tail(u), median)

\* what summarize logs: the count, then the mean, then the median and its
\* users; a line not logged has its flag FALSE
Logged(n, meanLogged, m, medianLogged, median, listed) ==
    [users |-> n, meanLogged |-> meanLogged, mean |-> m,
     medianLogged |-> medianLogged, median |-> median, listed |-> listed]

summarize(u) ==
    IF Len(u) = 0 THEN Logged(0, FALSE, 0, FALSE, 0, <<>>)
    ELSE IF mid(Len(u)) < Len(u)
    THEN LET median == sortInts(agesOf(u))[mid(Len(u)) + 1]
         IN  Logged(Len(u), TRUE, mean(u), TRUE, median,
                    medianUsers(u, median))
    ELSE Logged(Len(u), TRUE, mean(u), FALSE, 0, <<>>)

\* the users summarize is tried on: ages of both signs, two users of one age
SampleUsers ==
    {user(<<"A">>, <<"x">>, a) : a \in {-3, -1, 1, 2}}
    \cup {user(<<"B">>, <<"y">>, 2)}

InitSummarize ==
    /\ FetchReturned
    /\ stage = "summarize"
    /\ arg \in SeqsUpTo(SampleUsers, MaxUsers)
    /\ res = <<>>

\* summarize(users) in main
Summarize ==
    /\ stage = "summarize"
    /\ res' = summarize(arg)
    /\ stage' = "summarized"
    /\ UNCHANGED <<fetchVars, arg>>

NextSummarize == Summarize

SpecSummarize == InitSummarize /\ [][NextSummarize]_vars

(***************************************************************************)
(* makePayload on its own, called on source contents drawn from bounded    *)
(* sets.                                                                   *)
(***************************************************************************)
MaxRows == 2      \* most data rows of a source handed to makePayload

\* the first row of a source that has the three header columns
HeaderRow ==
    <<<<"f", "n", "a", "m", "e">>, <<" ", "l", "n", "a", "m", "e">>,
      <<" ", "a", "g", "e">>>>

\* the first row a,b,c
BadHeaderRow == <<<<"a">>, <<"b">>, <<"c">>>>

\* the first row "fname, lname, age" in quotes: one column
QuotedHeaderRow == <<Header>>

\* data rows: names empty, blank or padded; ages not a number, zero, padded,
\* negative or empty
SampleRows ==
    {<<a, b, c>> :
        a \in {<<>>, <<" ", "A", "l">>},
        b \in {<<" ">>, <<"B", "o", " ">>},
        c \in {<<"x">>, <<"0">>, <<" ", "7">>, <<"-", "3">>, <<>>}}

SampleBodies ==
    {Bytes(FALSE, <<h>> \o rows) :
        h \in {HeaderRow, BadHeaderRow}, rows \in SeqsUpTo(SampleRows, MaxRows)}
    \cup {Bytes(FALSE, <<QuotedHeaderRow>> \o rows) :
            rows \in SeqsUpTo({<<<<"A", "l">>>>}, 1)}
    \cup {Bytes(FALSE, <<HeaderRow, <<<<"A", "l">>, <<"7">>>> >>)}
    \cup {BodyEmpty, BodyMalformed}

\* what a call of makePayload ends in: a panic or the payload returned
Returned(panicked, p) == [panicked |-> panicked, p |-> p]

InitPayload ==
    /\ FetchReturned
    /\ stage = "makePayload"
    /\ arg \in SampleBodies
    /\ res = <<>>

\* makePayload(url, b), as fileFetcher calls it
MakePayload ==
    /\ stage = "makePayload"
    /\ res' = IF makePayloadPanics(arg) THEN Returned(TRUE, NoPayload)
              ELSE Returned(FALSE, makePayload(FileA, arg))
    /\ stage' = "made"
    /\ UNCHANGED <<fetchVars, arg>>

NextPayload == MakePayload

SpecPayload == InitPayload /\ [][NextPayload]_vars

(***************************************************************************)
(* merge on its own, called twice on one sequence of payloads drawn from   *)
(* bounded sets.                                                           *)
(***************************************************************************)
MaxOutcomes == 2  \* most payloads handed to merge
MaxRecords == 2   \* most users of one payload handed to merge

\* the loop of merge with the users of each payload put in front of u
mergeLoopInFront(u, ps) ==
    LET RECURSIVE loop(_, _)
        loop(v, q) == IF q = <<>> THEN v ELSE loop(Head(q).users \o v, Tail(q))
    IN  loop(u, ps)

\* for _, p := range payloads { u = append(u, p.users...) }
RECURSIVE mergeLoop(_, _)
mergeLoop(u, ps) ==
    IF ps = <<>> THEN u ELSE mergeLoop(u \o Head(ps).users, Tail(ps))

merge(ps) == mergeLoop(<<>>, ps)

\* the users of the payloads merge is tried on
MergeUsers == {user(<<"A">>, <<"x">>, 1), user(<<"B">>, <<"y">>, 2)}

\* succeeded payloads of two sources, as fetch returns them in final
MergePayloads ==
    {payload(u, us, 0, "", FALSE) :
        u \in {FileA, HttpB}, us \in SeqsUpTo(MergeUsers, MaxRecords)}

InitMerge ==
    /\ FetchReturned
    /\ stage = "merge"
    /\ arg \in SeqsUpTo(MergePayloads, MaxOutcomes)
    /\ res = <<>>

\* users := merge(p) in main, and the same call once more; res is the
\* sequence of the slices returned
Merge ==
    /\ stage \in {"merge", "merged"}
    /\ res' = Append(res, merge(arg))
    /\ stage' = IF stage = "merge" THEN "merged" ELSE "merged twice"
    /\ UNCHANGED <<fetchVars, arg>>

NextMerge == Merge

SpecMerge == InitMerge /\ [][NextMerge]_vars

(***************************************************************************)
(* Properties.                                                             *)
(***************************************************************************)
Range(q) == {q[n] : n \in DOMAIN q}

Running(w) == wpc[w] \notin {"none", "exit"}

IsFatal(p) == p.err # "" /\ ~p.canRetry

IsRetryableFailure(p) == p.err # "" /\ p.canRetry

C2_BarrierBetweenCycles ==
    /\ pc = "partition" =>
         /\ \A w \in Workers : ~Running(w)
         /\ mtx = Unlocked
         /\ wg = 0
    /\ pc = "spawn" =>
         /\ \A w \in Workers : w >= i => ~Running(w)
         /\ mtx = Unlocked

\* C2 witness: the second generation is being spawned after a first cycle in
\* which two workers ran.
C2_Witness ==
    /\ cycle = 2 /\ pc = "spawn" /\ i = 1
    /\ poolSize = 2
    /\ wpc[1] = "exit"
    /\ Cardinality(DOMAIN payloads) = 2

\* C3: when a partition finds retryable locators, each of them is fetched
\* again in the next cycle: as long as a requeued locator waits for its
\* call, the process has not died.
C3_RetryableFetchedAgain ==
    (cycle > 1 /\ \E n \in 1..Len(remaining) : calls[n] = 0) => panic = ""

\* C4: with a fetcher that fails retryably on a source's first two attempts
\* and succeeds on the third, once fetch has ended it has returned, and
\* final holds that source with the records of the third attempt.
C4_RetryConverges ==
    \A u \in Locators :
        (/\ f = "stubFetcher"
         /\ plan[u] = Plan("ok", 2)
         /\ (pc = "done" \/ panic # ""))
        => /\ pc = "done"
           /\ panic = ""
           /\ \E n \in 1..Len(final) :
                /\ final[n].url = u
                /\ final[n].users = <<user(<<"n">>, <<"n">>, 3)>>

\* C5: the outcome of an HTTP answer with status >= 500 is a retryable
\* failure (error set, canRetry set), and it is never in the succeeded set.
C5_ServerErrorIsRetryableFailure ==
    f = "urlFetcher" =>
        /\ \A w \in Workers : wp[w].canRetry => wp[w].err # ""
        /\ \A k \in DOMAIN payloads : payloads[k].canRetry => payloads[k].err # ""
        /\ \A n \in 1..Len(final) : ~final[n].canRetry

\* C6: a source whose outcome a partition found fatal is in no later work
\* queue, is fetched by no worker afterwards, and is not in final.
C6_FatalNeverRetried ==
    \A u \in dropped :
        /\ u \notin Range(remaining)
        /\ \A w \in Workers : wpc[w] = "call" => wurl[w] # u
        /\ \A n \in 1..Len(final) : final[n].url # u

\* C6 witness: a second cycle is queued for a retryable source while another
\* source of the first cycle was found fatal.
C6_Witness ==
    /\ cycle = 2
    /\ dropped # {}
    /\ remaining # <<>>
    /\ \E k \in DOMAIN payloads : IsFatal(payloads[k]) /\ payloads[k].url \in Locators

\* C7: when fetch has returned, the last partition found nothing to retry:
\* the pool has joined, no outcome in the map is a retryable failure and the
\* work list is empty; a source that fails retryably on every attempt keeps
\* fetch from returning.
C7_ReturnsOnlyWithoutRetryable ==
    /\ pc = "done" =>
         /\ \A k \in DOMAIN payloads : ~IsRetryableFailure(payloads[k])
         /\ remaining = <<>>
         /\ \A w \in Workers : ~Running(w)
    /\ (\E k \in DOMAIN payloads : IsRetryableFailure(payloads[k])) => pc # "done"
    /\ (\E u \in Locators : plan[u] = Plan("retry", 0)) => pc # "done"

\* C7 witness: fetch has returned with the outcomes of two sources, one
\* succeeded and one fatal.
C7_Witness ==
    /\ pc = "done"
    /\ Cardinality(DOMAIN payloads) = 2
    /\ Len(final) = 1
    /\ \E k \in DOMAIN payloads : IsFatal(payloads[k])

\* C8: when fetch has returned, the map holds exactly one outcome for each
\* distinct locator of the input, under the locator's String(), and final
\* holds at most one outcome for each locator.
C8_OneOutcomePerLocator ==
    pc = "done" =>
        /\ DOMAIN payloads = {String(u) : u \in Range(urls)}
        /\ \A k \in DOMAIN payloads : String(payloads[k].url) = k
        /\ \A a, b \in 1..Len(final) : a # b => final[a].url # final[b].url

\* C9: no failure of a source aborts the run: the process never panics, and
\* when fetch has returned final is exactly the succeeded outcomes.
C9_NoSourceAbortsRun ==
    /\ panic = ""
    /\ pc = "done" => Range(final) = {payloads[k] : k \in Succeeded(payloads)}

\* C10: at most poolSize calls of f are in progress at any time, at most
\* poolSize workers run, and a generation is exactly workers 0..poolSize-1.
C10_BoundedConcurrency ==
    /\ Cardinality({w \in Workers : wpc[w] = "call"}) <= poolSize
    /\ Cardinality({w \in Workers : Running(w)}) <= poolSize
    /\ wg <= poolSize
    /\ pc # "spawn" => {w \in Workers : wpc[w] # "none"} = 0..(poolSize - 1)

\* C10 witness: a pool of one worker is fetching while a second locator
\* waits in the queue.
C10_Witness ==
    /\ poolSize = 1
    /\ Len(remaining) = 2 /\ next = 2
    /\ wpc[0] = "call"
    /\ wpc[1] = "none"

\* C11: the map is written only under the mutex: at most one worker is in
\* the write section and it is the holder of r.mtx, no worker holds the lock
\* while it is inside f, and no write is lost: the map holds, for each key,
\* the last payload handed to results.add (with its elapsed time).
C11_MapWrittenUnderMutex ==
    /\ Cardinality({w \in Workers : wpc[w] = "locked"}) <= 1
    /\ \A w \in Workers : wpc[w] = "locked" <=> mtx = w
    /\ \A w \in Workers : wpc[w] = "call" => mtx # w
    /\ DOMAIN payloads = DOMAIN written
    /\ \A k \in DOMAIN written :
         payloads[k] = [written[k] EXCEPT !.elapsed = Tick]

\* C11 witness: one worker is in the write section while the other, back
\* from f with a payload for another key, waits for the lock.
C11_Witness ==
    /\ wpc[0] = "locked" /\ wpc[1] = "add"
    /\ mtx = 0
    /\ String(wp[0].url) # String(wp[1].url)

\* the sum of the ages of a user list, by index
RECURSIVE SumAges(_, _)
SumAges(u, n) == IF n = 0 THEN 0 ELSE u[n].age + SumAges(u, n - 1)

\* C12 as claimed: for every non-empty user list, negative ages included,
\* summarize logs the mean floor(sum of ages / count).
C12_MeanIsFloor ==
    (stage = "summarized" /\ Len(arg) > 0) =>
        /\ res.meanLogged
        /\ res.mean = SumAges(arg, Len(arg)) \div Len(arg)

\* C12 as amended: for every non-empty user list summarize logs the mean
\* sum/count with its fraction dropped toward zero: count * mean lies between
\* zero and the sum and is less than count away from the sum; with a sum
\* that is not negative this is floor(sum/count).
C12_MeanIsTruncated ==
    (stage = "summarized" /\ Len(arg) > 0) =>
        LET n == Len(arg)
            t == SumAges(arg, n)
        IN  /\ res.meanLogged
            /\ t >= 0 => (n * res.mean <= t /\ t < n * res.mean + n)
            /\ t < 0 => (n * res.mean - n < t /\ t <= n * res.mean)
            /\ t >= 0 => res.mean = t \div n

\* C12 witness: summarize has logged the mean of ages whose sum is negative
\* and no multiple of the count, where truncation and floor differ.
C12_Witness ==
    /\ stage = "summarized" /\ Len(arg) = 2
    /\ SumAges(arg, 2) = 0 - 1
    /\ res.mean = 0
    /\ SumAges(arg, 2) \div 2 = 0 - 1

\* C13: when mid = ceil(n/2) is a valid 0-based index, summarize logs as
\* median the element at index mid of the ages in ascending order (at most
\* mid ages are smaller, more than mid are not larger), and lists under it
\* exactly the users of that age, in input order.
C13_MedianAtCeilIndex ==
    (stage = "summarized" /\ mid(Len(arg)) < Len(arg)) =>
        LET n == Len(arg)
            v == res.median
        IN  /\ res.medianLogged
            /\ \E k \in 1..n : arg[k].age = v
            /\ Cardinality({k \in 1..n : arg[k].age < v}) <= mid(n)
            /\ Cardinality({k \in 1..n : arg[k].age <= v}) > mid(n)
            /\ res.listed = SelectSeq(arg, LAMBDA x : x.age = v)

\* C13 witness: four users out of order, two of them of the median age.
C13_Witness ==
    /\ stage = "summarized" /\ Len(arg) = 4
    /\ arg[1].age > arg[2].age
    /\ Len(res.listed) = 2
    /\ res.listed[1] # res.listed[2]

\* C14: summarize logs a median if and only if there are at least two
\* users: for no user it logs the count 0 and nothing else, for one user it
\* logs the mean and no median.
C14_MedianIffTwoUsers ==
    stage = "summarized" =>
        /\ res.users = Len(arg)
        /\ res.medianLogged <=> Len(arg) >= 2
        /\ res.meanLogged <=> Len(arg) >= 1
        /\ ~res.medianLogged => res.listed = <<>>

\* C14 witness: summarize has run on a single user.
C14_Witness ==
    /\ stage = "summarized" /\ Len(arg) = 1
    /\ res.meanLogged /\ ~res.medianLogged
    /\ res.mean = arg[1].age

\* a data row makePayload must keep: after trimming, the age is an integer
\* other than 0 and both names are non-empty
RowIsValid(row) ==
    /\ ~AtoiErr(TrimSpace(row[3]))
    /\ AtoiVal(TrimSpace(row[3])) # 0
    /\ TrimSpace(row[1]) # <<>>
    /\ TrimSpace(row[2]) # <<>>

\* the user a valid data row stands for
RowUser(row) ==
    user(TrimSpace(row[1]), TrimSpace(row[2]), AtoiVal(TrimSpace(row[3])))

\* the users of the valid rows among the data rows q, in the order of q
RECURSIVE ValidUsers(_)
ValidUsers(q) ==
    IF q = <<>> THEN <<>>
    ELSE IF RowIsValid(Head(q)) THEN <<RowUser(Head(q))>> \o ValidUsers(Tail(q))
    ELSE ValidUsers(Tail(q))

\* the contents that parse and start with the three header columns
HasValidHeader(b) ==
    /\ ~b.malformed
    /\ Len(b.rows) >= 1
    /\ b.rows[1] = HeaderRow
    /\ \A n \in 1..Len(b.rows) : Len(b.rows[n]) = 3

C16_BadHeaderIsFatal ==
    (stage = "made" /\ ~arg.malformed /\ Len(arg.rows) >= 1
        /\ ~parseCSVErr(arg) /\ arg.rows[1] # HeaderRow) =>
        /\ ~res.panicked
        /\ res.p.err # "" /\ ~res.p.canRetry
        /\ res.p.users = <<>>

\* The part of C16 the code keeps: a first row whose fields joined by ","
\* differ from the header string yields a fatal outcome with no records,
\* which the partition would not requeue.
HeaderStringMismatchIsFatal ==
    (stage = "made" /\ ~parseCSVErr(arg) /\ Len(arg.rows) >= 1
        /\ Join(arg.rows[1], <<",">>) # Header) =>
        /\ ~res.panicked
        /\ res.p.err # "" /\ ~res.p.canRetry
        /\ res.p.users = <<>>
        /\ Retryable([k \in {"k"} |-> res.p]) = {}


\* the number of users of the first k payloads of ps
RECURSIVE UsersBefore(_, _)
UsersBefore(ps, k) ==
    IF k = 0 THEN 0 ELSE Len(ps[k].users) + UsersBefore(ps, k - 1)

\* C17: merge returns the concatenation of the payloads' users in payload
\* order: its length is the sum of their lengths and user j of payload k
\* is at position (users of payloads before k) + j; a second merge of the
\* same payloads returns the same sequence; merge never changes its input.
C17_MergeConcatenates ==
    /\ [](stage # "merge" =>
            /\ Len(res[1]) = UsersBefore(arg, Len(arg))
            /\ \A k \in 1..Len(arg) : \A j \in 1..Len(arg[k].users) :
                 res[1][UsersBefore(arg, k - 1) + j] = arg[k].users[j]
            /\ stage = "merged twice" => res[2] = res[1])
    /\ [][arg' = arg]_vars

\* C17 witness: two payloads with different users, two each, merged twice.
C17_Witness ==
    /\ stage = "merged twice"
    /\ Len(arg) = 2
    /\ Len(arg[1].users) = 2 /\ Len(arg[2].users) = 2
    /\ arg[1].users # arg[2].users
    /\ Len(res[1]) = 4

\* C18: the outcome of a source that succeeded in an earlier cycle is part
\* of what fetch returns: once a fetch that began a retry cycle has ended,
\* it has returned, and final holds every succeeded outcome of the map.
C18_EarlierSuccessReturned ==
    (cycle > 1 /\ Succeeded(payloads) # {} /\ (pc = "done" \/ panic # "")) =>
        /\ pc = "done"
        /\ \A k \in Succeeded(payloads) : payloads[k] \in Range(final)

\* r is made once and only added to: no step of fetch removes a key of the
\* map, and a write changes the entry of the written key alone.
CollectorOnlyOverwrites ==
    [][\A k \in DOMAIN payloads :
         /\ k \in DOMAIN payloads'
         /\ payloads'[k] # payloads[k] =>
              \E w \in Workers : wpc[w] = "locked" /\ String(wp[w].url) = k]_vars

\* C19: the feeder never sends on a closed queue and never closes a queue
\* twice, and the queue is open whenever a generation is fed a locator.
C19_QueueProtocol ==
    /\ panic \notin {"send on closed channel", "close of closed channel"}
    /\ (pc = "feed" /\ next <= Len(remaining)) => ~chClosed

\* C20: with a fetch capability whose calls all return, no pool generation
\* stops before the join: until fetch has returned the process is alive and
\* the feeder or some worker can take its next step.
C20_GenerationCompletes ==
    (f = "stubFetcher" /\ pc # "done") => (panic = "" /\ ENABLED Next)

\* the same of the first generation alone, whose queue is open
FirstGenerationCompletes ==
    (f = "stubFetcher" /\ pc # "done" /\ cycle = 1) =>
        (panic = "" /\ ENABLED Next)

\* fetch of no locator returns an empty final without a call of f
EmptyFetchIsNoOp ==
    (urls = <<>> /\ pc = "done") =>
        /\ final = <<>>
        /\ payloads = <<>>
        /\ \A u \in Locators : attempts[u] = 0

====
